---- MODULE Spec2Model ----
(***************************************************************************)
(* package-hound (hound.py): the path-to-identity resolver                 *)
(* (ArtifactPackage) and the concurrent existence-verification run         *)
(* (ArtifactoryPackageChecker.process_package_list and                     *)
(* check_package_exists).                                                  *)
(*                                                                         *)
(* Python str values are TLA+ strings (TLC evaluates Len, SubSeq and \o    *)
(* on them); an Optional[str] is None (<<>>) or Some(s) (<<s>>).           *)
(***************************************************************************)
EXTENDS Integers, Sequences, FiniteSets, TLC

(***************************************************************************)
(* The state of a run                                                      *)
(***************************************************************************)
VARIABLES
    pc,              \* where process_package_list stands
    ping,            \* what /api/system/ping answered, None before the request
    ret,             \* its return value, None while it runs
    file,            \* the input file: [header_ok, rows], a row being [path, type]
    available_repos, \* what get_repositories returned
    repo_mappings,   \* self.repo_mappings
    module_mappings, \* the module-level dict DEFAULT_REPO_MAPPINGS as it is now
    own_mappings,    \* self.repo_mappings is a dict of the caller, not the module-level one
    refreshes,       \* how many times update_repository_mappings has run
    read_error,      \* the exception caught while the input was read, if any
    packages,        \* the list of ArtifactPackage built from the rows
    submitted,       \* how many packages were handed to executor.submit
    tasks,           \* per package, its check_package_exists call
    collected,       \* the calls whose futures as_completed has yielded, in that order
    results,         \* the results list
    output           \* the rows written to the output file, None before

vars == <<pc, ping, ret, file, available_repos, repo_mappings, module_mappings, own_mappings,
          refreshes, read_error, packages, submitted, tasks, collected, results, output>>

(***************************************************************************)
(* Python values and str methods                                           *)
(***************************************************************************)
None == <<>>
Some(s) == <<s>>
\* f"{x}" of an Optional[str]
Fmt(o) == IF o = None THEN "None" ELSE o[1]
\* truthiness of an Optional[str]: None and '' are falsy
Truthy(o) == o # None /\ o[1] # ""

Char(s, i) == SubSeq(s, i, i)
StartsWith(s, p) == Len(s) >= Len(p) /\ SubSeq(s, 1, Len(p)) = p
EndsWith(s, p) == Len(s) >= Len(p) /\ SubSeq(s, Len(s) - Len(p) + 1, Len(s)) = p
\* sub in s
Contains(s, sub) == \E i \in 1..(Len(s) - Len(sub) + 1) : SubSeq(s, i, i + Len(sub) - 1) = sub

Digits == {"0", "1", "2", "3", "4", "5", "6", "7", "8", "9"}
LowerLetters == {"a", "b", "c", "d", "e", "f", "g", "h", "i", "j", "k", "l", "m",
                 "n", "o", "p", "q", "r", "s", "t", "u", "v", "w", "x", "y", "z"}
UpperLetters == {"A", "B", "C", "D", "E", "F", "G", "H", "I", "J", "K", "L", "M",
                 "N", "O", "P", "Q", "R", "S", "T", "U", "V", "W", "X", "Y", "Z"}
\* regex \d, [a-zA-Z0-9] and \w
IsDigit(c) == c \in Digits
IsAlnum(c) == c \in Digits \cup LowerLetters \cup UpperLetters
IsWord(c) == IsAlnum(c) \/ c = "_"

RECURSIVE SplitFrom(_, _, _, _)
SplitFrom(s, sep, i, start) ==
    IF i > Len(s) THEN <<SubSeq(s, start, Len(s))>>
    ELSE IF Char(s, i) = sep
         THEN <<SubSeq(s, start, i - 1)>> \o SplitFrom(s, sep, i + 1, i + 1)
         ELSE SplitFrom(s, sep, i + 1, start)
\* s.split(sep) for a one-character sep
Split(s, sep) == SplitFrom(s, sep, 1, 1)

RECURSIVE Join(_, _)
\* sep.join(seq)
Join(sep, seq) ==
    IF Len(seq) = 0 THEN ""
    ELSE IF Len(seq) = 1 THEN seq[1]
    ELSE seq[1] \o sep \o Join(sep, Tail(seq))

RECURSIVE Replace(_, _, _)
\* s.replace(a, b) for a one-character a
Replace(s, a, b) ==
    IF Len(s) = 0 THEN ""
    ELSE (IF Char(s, 1) = a THEN b ELSE Char(s, 1)) \o Replace(SubSeq(s, 2, Len(s)), a, b)

RECURSIVE LStrip(_)
LStrip(s) == IF Len(s) > 0 /\ Char(s, 1) = " " THEN LStrip(SubSeq(s, 2, Len(s))) ELSE s
RECURSIVE RStrip(_)
RStrip(s) == IF Len(s) > 0 /\ Char(s, Len(s)) = " " THEN RStrip(SubSeq(s, 1, Len(s) - 1)) ELSE s
\* s.strip(), for the blank as the only whitespace
Strip(s) == RStrip(LStrip(s))

LowerOf == [c \in UpperLetters |->
    CASE c = "A" -> "a" [] c = "B" -> "b" [] c = "C" -> "c" [] c = "D" -> "d"
      [] c = "E" -> "e" [] c = "F" -> "f" [] c = "G" -> "g" [] c = "H" -> "h"
      [] c = "I" -> "i" [] c = "J" -> "j" [] c = "K" -> "k" [] c = "L" -> "l"
      [] c = "M" -> "m" [] c = "N" -> "n" [] c = "O" -> "o" [] c = "P" -> "p"
      [] c = "Q" -> "q" [] c = "R" -> "r" [] c = "S" -> "s" [] c = "T" -> "t"
      [] c = "U" -> "u" [] c = "V" -> "v" [] c = "W" -> "w" [] c = "X" -> "x"
      [] c = "Y" -> "y" [] c = "Z" -> "z"]
RECURSIVE Lower(_)
\* s.lower()
Lower(s) ==
    IF Len(s) = 0 THEN ""
    ELSE (IF Char(s, 1) \in UpperLetters THEN LowerOf[Char(s, 1)] ELSE Char(s, 1))
         \o Lower(SubSeq(s, 2, Len(s)))

\* os.path.basename(p): what follows the last '/'
Basename(p) == LET parts == Split(p, "/") IN parts[Len(parts)]

\* x in list
InList(x, seq) == \E i \in 1..Len(seq) : seq[i] = x
\* list.index(x) as a 0-based index, for x in list
IndexOf(x, seq) == (CHOOSE i \in 1..Len(seq) : seq[i] = x /\ \A j \in 1..(i - 1) : seq[j] # x) - 1

(***************************************************************************)
(* The regular expressions of the resolver                                 *)
(***************************************************************************)
RECURSIVE DigitsEnd(_, _)
\* the position after the longest run of digits of s that starts at i
DigitsEnd(s, i) == IF i <= Len(s) /\ IsDigit(Char(s, i)) THEN DigitsEnd(s, i + 1) ELSE i

RECURSIVE RunEnd(_, _)
\* the position after the longest run of [.\w] of s that starts at i
RunEnd(s, i) ==
    IF i <= Len(s) /\ (IsWord(Char(s, i)) \/ Char(s, i) = ".") THEN RunEnd(s, i + 1) ELSE i

\* re.match(r'(.+?)-\d+', f): group 1, or None
PyNameMatch(f) ==
    LET hits == {j \in 2..(Len(f) - 1) : Char(f, j) = "-" /\ IsDigit(Char(f, j + 1))}
    IN IF hits = {} THEN None
       ELSE LET j == CHOOSE k \in hits : \A m \in hits : k <= m
            IN Some(SubSeq(f, 1, j - 1))

\* re.search(r'-(\d+[.\w]+)', f): group 1, or None
PyVersionMatch(f) ==
    LET hits == {j \in 1..(Len(f) - 1) :
                    /\ Char(f, j) = "-"
                    /\ IsDigit(Char(f, j + 1))
                    /\ RunEnd(f, j + 1) - (j + 1) >= 2}
    IN IF hits = {} THEN None
       ELSE LET j == CHOOSE k \in hits : \A m \in hits : k <= m
            IN Some(SubSeq(f, j + 1, RunEnd(f, j + 1) - 1))

\* s[i:] is [-+][a-zA-Z0-9.-]+ up to the end of s
IsSuffixTag(s, i) ==
    /\ i + 1 <= Len(s)
    /\ Char(s, i) \in {"-", "+"}
    /\ \A k \in (i + 1)..Len(s) : IsAlnum(Char(s, k)) \/ Char(s, k) \in {".", "-"}

\* the position after \d+\.\d+\.\d+ matched at i, or 0
Triple(s, i) ==
    LET a == DigitsEnd(s, i)
        b == DigitsEnd(s, a + 1)
        c == DigitsEnd(s, b + 1)
    IN IF a > i /\ a <= Len(s) /\ Char(s, a) = "." /\ b > a + 1
          /\ b <= Len(s) /\ Char(s, b) = "." /\ c > b + 1
       THEN c ELSE 0

\* s[i:] matches \d+\.\d+\.\d+(?:\.\d+)?(?:[-+][a-zA-Z0-9.-]+)?$
IsNugetVersion(s, i) ==
    LET c == Triple(s, i)
        d == IF c > 0 /\ c <= Len(s) /\ Char(s, c) = "." THEN DigitsEnd(s, c + 1) ELSE 0
    IN /\ c > 0
       /\ \/ c = Len(s) + 1
          \/ IsSuffixTag(s, c)
          \/ d > c + 1 /\ (d = Len(s) + 1 \/ IsSuffixTag(s, d))

\* the split with (.+?) in place of (.+): the first '.' after which the rest is a version
NugetNameMatch_shortest_name(base) ==
    LET hits == {p \in 2..Len(base) : Char(base, p) = "." /\ IsNugetVersion(base, p + 1)}
    IN IF hits = {} THEN None
       ELSE LET p == CHOOSE k \in hits : \A m \in hits : k <= m
            IN Some(SubSeq(base, 1, p - 1))

\* re.search(r'(.+)\.(\d+\.\d+\.\d+(?:\.\d+)?(?:[-+][a-zA-Z0-9.-]+)?)$', base): group 1, or None.
\* (.+) is greedy: the last '.' after which the rest is a version.
NugetNameMatch(base) ==
    LET hits == {p \in 2..Len(base) : Char(base, p) = "." /\ IsNugetVersion(base, p + 1)}
    IN IF hits = {} THEN None
       ELSE LET p == CHOOSE k \in hits : \A m \in hits : k >= m
            IN Some(SubSeq(base, 1, p - 1))

\* the end (exclusive) of \d+\.\d+\.\d+(?:\.\d+)?(?:$|\.) matched at i, or 0
QuadEnd(s, i) ==
    LET c == Triple(s, i)
        d == IF c > 0 /\ c <= Len(s) /\ Char(s, c) = "." THEN DigitsEnd(s, c + 1) ELSE 0
    IN IF c = 0 THEN 0
       ELSE IF d > c + 1 /\ (d = Len(s) + 1 \/ Char(s, d) = ".") THEN d
       ELSE IF c = Len(s) + 1 \/ Char(s, c) = "." THEN c
       ELSE 0

\* re.search(r'\.(\d+\.\d+\.\d+(?:\.\d+)?)(?:$|\.)', base): group 1, or None
NugetVersionSearch(base) ==
    LET hits == {j \in 1..Len(base) : Char(base, j) = "." /\ QuadEnd(base, j + 1) > 0}
    IN IF hits = {} THEN None
       ELSE LET j == CHOOSE k \in hits : \A m \in hits : k <= m
            IN Some(SubSeq(base, j + 1, QuadEnd(base, j + 1) - 1))

\* the pattern pat, a name put into a regular expression as it is, matches s at i:
\* '.' matches any character, every other character of a name matches itself
\* (names hold letters, digits, '.', '-', '_', '@' and ':')
PatAt(pat, s, i) ==
    /\ i + Len(pat) - 1 <= Len(s)
    /\ \A k \in 1..Len(pat) : Char(pat, k) = "." \/ Char(pat, k) = Char(s, i + k - 1)

\* re.search(f"{name}-(.+){tail}", f) for a literal tail: group 1, or None.
\* The leftmost match of name, then (.+) greedy up to the last tail.
NameDashSearch(name, tail, f) ==
    LET ok(i, q) == /\ PatAt(name, f, i)
                    /\ i + Len(name) <= Len(f)
                    /\ Char(f, i + Len(name)) = "-"
                    /\ q >= i + Len(name) + 2
                    /\ q + Len(tail) - 1 <= Len(f)
                    /\ SubSeq(f, q, q + Len(tail) - 1) = tail
        starts == {i \in 1..Len(f) : \E q \in 1..Len(f) : ok(i, q)}
    IN IF starts = {} THEN None
       ELSE LET i == CHOOSE k \in starts : \A m \in starts : k <= m
                q == CHOOSE k \in {x \in 1..Len(f) : ok(i, x)} :
                        \A m \in {x \in 1..Len(f) : ok(i, x)} : k >= m
            IN Some(SubSeq(f, i + Len(name) + 1, q - 1))

(***************************************************************************)
(* ArtifactPackage: the identity resolver                                  *)
(***************************************************************************)
Ecosystems == {"maven", "npm", "python", "nuget", "terraform", "docker"}

\* ArtifactPackage._extract_repo
extract_repo(path) == IF Contains(path, "/") THEN Some(Split(path, "/")[1]) ELSE None

\* parts[k] of the code is parts[k + 1] in all that follows

\* the maven name with the artifact id taken from the last segment but one, whatever the
\* file is
maven_package_name_flat(parts, filename) ==
    IF Len(parts) >= 3
    THEN Some(Join(".", IF Len(parts) > 3 THEN SubSeq(parts, 2, Len(parts) - 2) ELSE <<parts[2]>>)
              \o ":" \o parts[Len(parts) - 1])
    ELSE None

\* lines 58-84: the maven branch of _extract_package_name
maven_package_name(parts, filename) ==
    IF filename = "maven-metadata.xml"
    THEN IF Len(parts) >= 3
         THEN Some(Join(".", IF Len(parts) > 3 THEN SubSeq(parts, 2, Len(parts) - 2)
                             ELSE <<parts[2]>>)
                   \o ":" \o parts[Len(parts) - 1])
         ELSE None
    ELSE IF Len(parts) >= 4
         THEN IF filename # "" /\ InList(filename, parts)
              THEN Some(Join(".", SubSeq(parts, 2, Len(parts) - 3)) \o ":" \o parts[Len(parts) - 2])
              ELSE Some(Join(".", SubSeq(parts, 2, Len(parts) - 2)) \o ":" \o parts[Len(parts) - 1])
         ELSE None

\* lines 88-96: the npm branch of _extract_package_name
npm_package_name(parts) ==
    IF Len(parts) >= 3
    THEN IF StartsWith(parts[2], "@") THEN Some(parts[2] \o "/" \o parts[3])
         ELSE IF parts[Len(parts)] = "package.json" THEN Some(parts[Len(parts) - 1])
         ELSE Some(parts[2])
    ELSE None

\* lines 143-179: the docker branch of _extract_package_name and the fallback it can
\* fall through to
docker_package_name(parts) ==
    IF Len(parts) < 3 THEN None
    ELSE IF InList("_uploads", parts)
         THEN IF IndexOf("_uploads", parts) >= 3
              THEN Some(parts[2] \o "/" \o parts[3])
              \* no return in this branch: the default fallback, parts[1]
              ELSE Some(parts[2])
    ELSE IF Len(parts) >= 5 /\ Contains(parts[4], "-") THEN Some(parts[2] \o "/" \o parts[3])
    ELSE IF Len(parts) >= 4 /\ ~StartsWith(parts[4], "_") THEN Some(parts[2] \o "/" \o parts[3])
    ELSE Some(parts[2] \o "/" \o parts[3])

\* ArtifactPackage._extract_package_name
extract_package_name(path, package_type, filename) ==
    LET parts == Split(path, "/")
        n == Len(parts)
    IN CASE package_type = "maven" -> maven_package_name(parts, filename)
         [] package_type = "npm" -> npm_package_name(parts)
         [] package_type = "python" ->
              IF n >= 3
              THEN IF filename # "" /\ PyNameMatch(filename) # None
                   THEN PyNameMatch(filename)
                   ELSE Some(parts[3])
              ELSE None
         [] package_type = "nuget" ->
              IF Contains(path, "/") THEN Some(parts[2])
              ELSE IF EndsWith(filename, ".nupkg")
                   THEN NugetNameMatch(SubSeq(filename, 1, Len(filename) - 6))
                   ELSE None
         [] package_type = "terraform" ->
              IF n >= 5 /\ parts[2] = "modules" THEN Some(parts[3] \o "/" \o parts[4]) ELSE None
         [] package_type = "docker" -> docker_package_name(parts)
         [] OTHER -> IF n >= 2 THEN Some(parts[2]) ELSE None

\* ArtifactPackage._extract_version: [exc, value], exc naming the exception raised if any
Returns(v) == [exc |-> None, value |-> v]
Raises(e) == [exc |-> Some(e), value |-> None]

\* lines 231-236: the npm version from the directory structure; parts[1] is read unguarded
npm_version_lookup(parts) ==
    IF Len(parts) < 2 THEN Raises("IndexError")
    ELSE IF StartsWith(parts[2], "@") /\ Len(parts) >= 4 THEN Returns(Some(parts[4]))
    ELSE IF Len(parts) >= 3 THEN Returns(Some(parts[3]))
    ELSE Returns(None)

\* is_versionless that knows the maven descriptor only
is_versionless_maven_only(package_type, filename) ==
    package_type = "maven" /\ filename = "maven-metadata.xml"

\* lines 184-191: the files that stand for no specific version
is_versionless(package_type, filename) ==
    \/ package_type = "maven" /\ filename = "maven-metadata.xml"
    \/ package_type = "python" /\ (EndsWith(filename, ".html") \/ filename = "index.html")
    \/ package_type = "npm" /\ filename = "package.json"
    \/ package_type = "nuget" /\ filename = "index.json"

\* docker_version that takes the tag of a long path from the last directory
docker_version_last_directory(parts) ==
    IF InList("_uploads", parts) THEN Returns(Some("latest"))
    ELSE IF Len(parts) >= 4 /\ ~StartsWith(parts[Len(parts) - 1], "_")
    THEN Returns(Some(parts[Len(parts) - 1]))
    ELSE Returns(Some("latest"))

\* lines 282-297: the docker branch of _extract_version
docker_version(parts) ==
    IF InList("_uploads", parts) THEN Returns(Some("latest"))
    ELSE IF Len(parts) >= 4 /\ ~StartsWith(parts[4], "_") THEN Returns(Some(parts[4]))
    ELSE Returns(Some("latest"))

extract_version(path, package_type, filename, package_name) ==
    LET parts == Split(path, "/")
        n == Len(parts)
    IN IF is_versionless(package_type, filename)
       THEN Returns(None)
       ELSE CASE package_type = "maven" ->
              IF n >= 5 THEN Returns(Some(parts[n - 1]))
              ELSE IF filename # "" /\ Contains(filename, "-") /\ Contains(filename, ".")
                   THEN LET names == IF Truthy(package_name) THEN Split(package_name[1], ":") ELSE <<"">>
                            artifact_id == names[Len(names)]
                        IN IF artifact_id # ""
                           THEN Returns(NameDashSearch(artifact_id, ".", filename))
                           ELSE Returns(None)
                   ELSE Returns(None)
         [] package_type = "npm" ->
              LET names == IF Truthy(package_name) THEN Split(package_name[1], "/") ELSE <<"">>
                  short == IF Truthy(package_name) /\ Contains(package_name[1], "/")
                           THEN names[Len(names)]
                           ELSE names[1]
                  tgz == IF filename # "" /\ EndsWith(filename, ".tgz") /\ short # ""
                         THEN NameDashSearch(short, ".tgz", filename)
                         ELSE None
              IN IF tgz # None THEN Returns(tgz) ELSE npm_version_lookup(parts)
         [] package_type = "python" ->
              IF filename # "" THEN Returns(PyVersionMatch(filename)) ELSE Returns(None)
         [] package_type = "nuget" ->
              IF Contains(path, "/")
              THEN IF n >= 3 THEN Returns(Some(parts[3])) ELSE Returns(None)
              ELSE IF EndsWith(filename, ".nupkg")
                   THEN LET base_name == SubSeq(filename, 1, Len(filename) - 6)
                        IN IF Truthy(package_name) /\ StartsWith(base_name, package_name[1] \o ".")
                           THEN Returns(Some(SubSeq(base_name, Len(package_name[1]) + 2, Len(base_name))))
                           ELSE Returns(NugetVersionSearch(base_name))
                   ELSE Returns(None)
         [] package_type = "terraform" ->
              IF n >= 5 THEN Returns(Some(parts[5])) ELSE Returns(None)
         [] package_type = "docker" -> docker_version(parts)
         [] OTHER -> Returns(None)

\* lines 46-47 of ArtifactPackage.__init__, the attributes set so far given
Identity(path, package_type, filename, repo, package_name, version) ==
    [path |-> path, package_type |-> package_type, filename |-> filename, repo |-> repo,
     package_name |-> IF version.exc = None THEN package_name ELSE None,
     version |-> version.value, exc |-> version.exc]

Named(path, package_type, filename, repo, package_name) ==
    Identity(path, package_type, filename, repo, package_name,
             extract_version(path, package_type, filename, package_name))

\* lines 38-44 of ArtifactPackage.__init__: a bare NuGet file name has no repository
Stripped(raw_path, path, package_type) ==
    IF package_type = "nuget" /\ ~Contains(raw_path, "/") /\ EndsWith(raw_path, ".nupkg")
    THEN Named(path, package_type, raw_path, None,
               extract_package_name(path, package_type, raw_path))
    ELSE Named(path, package_type, Basename(path), extract_repo(path),
               extract_package_name(path, package_type, Basename(path)))

\* ArtifactPackage that keeps a repository hint only if the catalog of the moment knows it
ArtifactPackage_catalog_hint(raw_path, raw_type) ==
    [Stripped(raw_path, Strip(raw_path), Lower(Strip(raw_type))) EXCEPT
        !.repo = IF @ # None /\ \E e \in DOMAIN repo_mappings : InList(@[1], repo_mappings[e])
                 THEN @ ELSE None]

\* ArtifactPackage.__init__: the identity, or exc set when the constructor raises
ArtifactPackage(raw_path, raw_type) == Stripped(raw_path, Strip(raw_path), Lower(Strip(raw_type)))

(***************************************************************************)
(* ArtifactoryPackageChecker: catalog, URLs and the verification of one    *)
(* identity                                                                *)
(***************************************************************************)
\* the module-level seed of repo_mappings
DEFAULT_REPO_MAPPINGS ==
    [e \in Ecosystems |->
        CASE e = "python" -> <<"pypi-local", "pypi-remote", "pypi-virtual">>
          [] e = "npm" -> <<"npm-local", "npm-remote", "npm-virtual">>
          [] e = "maven" -> <<"maven-local", "maven-remote", "maven-virtual">>
          [] e = "nuget" -> <<"nuget-local", "nuget-remote", "nuget-virtual">>
          [] e = "terraform" -> <<"terraform-local", "terraform-remote", "terraform-virtual">>
          [] e = "docker" -> <<"docker-local", "docker-remote", "docker-virtual">>]

\* base_url.rstrip('/') of the checker
base_url == "http://h"

RECURSIVE FilterSeq(_, _)
\* [x for x in seq if x in keep]
FilterSeq(seq, keep) ==
    IF Len(seq) = 0 THEN <<>>
    ELSE (IF seq[1] \in keep THEN <<seq[1]>> ELSE <<>>) \o FilterSeq(Tail(seq), keep)

RECURSIVE KeysOfType(_, _)
\* repos_by_type[t]: the keys of the listing whose packageType is t, in listing order
KeysOfType(listing, t) ==
    IF Len(listing) = 0 THEN <<>>
    ELSE (IF listing[1].packageType = t THEN <<listing[1].key>> ELSE <<>>)
         \o KeysOfType(Tail(listing), t)

\* lines 389-400: the Artifactory package type of an ecosystem
matching_type(pkg_type) == IF pkg_type = "python" THEN "pypi" ELSE pkg_type

\* update_repository_mappings that keeps a list when none of its keys is live
update_repository_mappings_no_fallback(mappings, listing) ==
    LET keys == {listing[i].key : i \in 1..Len(listing)}
    IN [pkg_type \in DOMAIN mappings |->
          LET of_type == KeysOfType(listing, matching_type(pkg_type))
              existing_repos == FilterSeq(mappings[pkg_type], keys)
          IN IF of_type # <<>> /\ existing_repos # <<>> THEN existing_repos
             ELSE mappings[pkg_type]]

\* update_repository_mappings without the test that a repository of the type is live
update_repository_mappings_unguarded(mappings, listing) ==
    LET keys == {listing[i].key : i \in 1..Len(listing)}
    IN [pkg_type \in DOMAIN mappings |->
          LET of_type == KeysOfType(listing, matching_type(pkg_type))
              existing_repos == FilterSeq(mappings[pkg_type], keys)
          IN IF existing_repos = <<>> THEN of_type ELSE existing_repos]

\* ArtifactoryPackageChecker.update_repository_mappings; listing is available_repos, what
\* get_repositories returned: a sequence of [key, packageType] with distinct keys
update_repository_mappings(mappings, listing) ==
    LET keys == {listing[i].key : i \in 1..Len(listing)}
    IN [pkg_type \in DOMAIN mappings |->
          LET of_type == KeysOfType(listing, matching_type(pkg_type))
              existing_repos == FilterSeq(mappings[pkg_type], keys)
          IN IF of_type # <<>>
             THEN IF existing_repos = <<>> THEN of_type ELSE existing_repos
             ELSE mappings[pkg_type]]

\* lines 419-424
is_metadata_file(pkg) ==
    \/ pkg.package_type = "maven" /\ pkg.filename = "maven-metadata.xml"
    \/ pkg.package_type = "python" /\ pkg.filename = "index.html"
    \/ pkg.package_type = "npm" /\ pkg.filename = "package.json"
    \/ pkg.package_type = "nuget" /\ pkg.filename = "index.json"

RECURSIVE Without(_, _)
\* [repo for repo in seq if repo != x], x an Optional[str]
Without(seq, x) ==
    IF Len(seq) = 0 THEN <<>>
    ELSE (IF Some(seq[1]) = x THEN <<>> ELSE <<seq[1]>>) \o Without(Tail(seq), x)

\* repos_to_check with the hint put after the catalog candidates
repos_to_check_hint_last(pkg, mappings) ==
    Without(IF pkg.package_type \in DOMAIN mappings THEN mappings[pkg.package_type] ELSE <<>>,
            pkg.repo)
    \o (IF Truthy(pkg.repo) THEN pkg.repo ELSE <<>>)

\* lines 429-441: the hint, when truthy, then the catalog candidates other than the hint
repos_to_check(pkg, mappings) ==
    (IF Truthy(pkg.repo) THEN pkg.repo ELSE <<>>)
    \o Without(IF pkg.package_type \in DOMAIN mappings THEN mappings[pkg.package_type] ELSE <<>>,
               pkg.repo)

RECURSIVE Quote(_)
\* urllib.parse.quote(s): letters, digits, '_', '.', '-', '~' and '/' are kept
Quote(s) ==
    IF Len(s) = 0 THEN ""
    ELSE LET c == Char(s, 1)
         IN (CASE IsAlnum(c) \/ c \in {"_", ".", "-", "~", "/"} -> c
               [] c = "@" -> "%40"
               [] c = ":" -> "%3A"
               [] c = "+" -> "%2B"
               [] c = " " -> "%20"
               [] OTHER -> c)
            \o Quote(SubSeq(s, 2, Len(s)))

TypeError == "argument of type 'NoneType' is not iterable"

\* prepare that takes the raw path for every candidate
prepare_raw_path_only(pkg, repo, check_url) ==
    [raises |-> FALSE, branch |-> "first", url |-> Some(base_url \o "/" \o pkg.path)]

\* what one pass of the loop of check_package_exists does before its first HEAD request:
\* [raises, branch, url]; branch "first" is a branch with a HEAD of its own (lines
\* 445-469 and 472-492), "common" goes straight to the HEAD of lines 538-554; url is
\* check_url, which keeps its previous value when no branch assigns it
prepare(pkg, repo, check_url) ==
    LET name == pkg.package_name
        group_id == Split(Fmt(name), ":")[1]
        artifact_id == SubSeq(Fmt(name), Len(group_id) + 2, Len(Fmt(name)))
        group_path == Replace(group_id, ".", "/")
        version == Fmt(pkg.version)
        raise == [raises |-> TRUE, branch |-> "none", url |-> check_url]
        first(u) == [raises |-> FALSE, branch |-> "first", url |-> Some(u)]
        common(u) == [raises |-> FALSE, branch |-> "common", url |-> u]
    IN IF is_metadata_file(pkg) /\ pkg.package_type = "maven"
       THEN IF name = None THEN raise
            ELSE IF Contains(name[1], ":")
                 THEN first(base_url \o "/" \o repo \o "/" \o group_path \o "/" \o artifact_id
                            \o "/maven-metadata.xml")
                 ELSE common(check_url)
       ELSE IF StartsWith(pkg.path, repo \o "/")
       THEN first(base_url \o "/" \o pkg.path)
       ELSE CASE pkg.package_type = "maven" ->
                   IF name = None THEN raise
                   ELSE IF Contains(name[1], ":")
                        THEN common(Some(base_url \o "/" \o repo \o "/" \o group_path \o "/"
                                         \o artifact_id \o "/" \o version \o "/" \o artifact_id
                                         \o "-" \o version \o ".jar"))
                        ELSE common(check_url)
              [] pkg.package_type = "npm" ->
                   IF name = None THEN raise
                   ELSE IF Contains(name[1], "/")
                        THEN common(Some(base_url \o "/" \o repo \o "/" \o Quote(name[1]) \o "/" \o version))
                        ELSE common(Some(base_url \o "/" \o repo \o "/" \o name[1] \o "/" \o version))
              [] pkg.package_type = "python" ->
                   common(Some(base_url \o "/" \o repo \o "/simple/" \o Fmt(name)))
              [] pkg.package_type = "nuget" ->
                   common(Some(base_url \o "/" \o repo \o "/" \o Fmt(name) \o "/" \o version))
              [] pkg.package_type = "terraform" ->
                   IF name = None THEN raise
                   ELSE common(Some(base_url \o "/" \o repo \o "/modules/" \o name[1] \o "/" \o version))
              [] pkg.package_type = "docker" ->
                   common(Some(base_url \o "/" \o repo \o "/" \o Fmt(name) \o "/manifests/" \o version))
              [] OTHER -> common(check_url)

\* found_result that leaves the repository out
found_result_no_repository(pkg, repo, version) ==
    [path |-> pkg.path, package_name |-> pkg.package_name, package_type |-> pkg.package_type,
     version |-> version, found |-> TRUE, repository |-> None, error |-> None]

\* the result dictionaries of check_package_exists and of the fault handler
found_result(pkg, repo, version) ==
    [path |-> pkg.path, package_name |-> pkg.package_name, package_type |-> pkg.package_type,
     version |-> version, found |-> TRUE, repository |-> Some(repo), error |-> None]

\* not_found_result with an error that lists the catalog candidates only, not the hint
not_found_result_no_hint(pkg, repos) ==
    [path |-> pkg.path, package_name |-> pkg.package_name, package_type |-> pkg.package_type,
     version |-> IF is_metadata_file(pkg) THEN None ELSE pkg.version,
     found |-> FALSE, repository |-> None,
     error |-> Some("Package not found in repositories: " \o Join(", ", Without(repos, pkg.repo)))]

not_found_result(pkg, repos) ==
    [path |-> pkg.path, package_name |-> pkg.package_name, package_type |-> pkg.package_type,
     version |-> IF is_metadata_file(pkg) THEN None ELSE pkg.version,
     found |-> FALSE, repository |-> None,
     error |-> Some("Package not found in repositories: " \o Join(", ", repos))]

\* fault_result without the message of the exception
fault_result_no_message(pkg, message) ==
    [path |-> pkg.path, package_name |-> pkg.package_name, package_type |-> pkg.package_type,
     version |-> pkg.version, found |-> FALSE, repository |-> None, error |-> None]

fault_result(pkg, message) ==
    [path |-> pkg.path, package_name |-> pkg.package_name, package_type |-> pkg.package_type,
     version |-> pkg.version, found |-> FALSE, repository |-> None, error |-> Some(message)]

(***************************************************************************)
(* The run: process_package_list on the main thread, check_package_exists  *)
(* on the threads of the pool                                              *)
(***************************************************************************)
\* rows of the input file after the header
MaxRows == 2
\* max_workers of the pool
MaxWorkers == 2
\* segments of a path handed to the resolver alone
MaxSegments == 3
\* entries of a listing handed to update_repository_mappings alone
MaxListing == 3
\* segments of a deep maven, npm or docker path handed to the resolver alone
MaxDeepSegments == 6

\* the rows a file may hold: a resolved identity with a repository hint outside the
\* catalog (blanks and capitals around it), a metadata descriptor whose hint is a catalog
\* key, an unresolved identity with a hint, a path the resolver raises on, a bare file
\* name without a hint, an unsupported tag
Inputs ==
    { [path |-> " m/g/a/1/a-1.jar ", type |-> "Maven "],
      [path |-> "maven-virtual/g/a/maven-metadata.xml", type |-> "maven"],
      [path |-> "r/a", type |-> "npm"],
      [path |-> "lodash", type |-> "npm"],
      [path |-> "a.1.2.3.nupkg", type |-> "nuget"],
      [path |-> "x/y", type |-> "gem"] }

Files ==
    {[header_ok |-> FALSE, rows |-> <<>>]}
    \cup {[header_ok |-> TRUE, rows |-> r] : r \in UNION {[1..n -> Inputs] : n \in 0..MaxRows}}

\* the answers of /api/system/ping: [status, text], or raised
PingAnswers ==
    { [raised |-> FALSE, status |-> 200, text |-> "OK"],
      [raised |-> FALSE, status |-> 200, text |-> ""],
      [raised |-> FALSE, status |-> 401, text |-> "Unauthorized"],
      [raised |-> TRUE, status |-> 0, text |-> ""] }

\* ArtifactoryPackageChecker.check_artifactory_connection
check_artifactory_connection(answer) ==
    ~answer.raised /\ answer.status = 200 /\ answer.text = "OK"

\* the listings /api/repositories may answer with; <<>> stands for a failed request too
Listings ==
    { <<>>,
      << [key |-> "maven-local", packageType |-> "maven"],
         [key |-> "maven-virtual", packageType |-> "maven"],
         [key |-> "npm-x", packageType |-> "npm"],
         [key |-> "nuget-remote", packageType |-> "nuget"] >>,
      << [key |-> "maven-local", packageType |-> "maven"],
         [key |-> "npm-local", packageType |-> "npm"],
         [key |-> "pypi-local", packageType |-> "python"] >> }

\* what one HEAD request may do: answer 200, answer another status, or raise
HeadOutcomes == {"200", "404", "raise"}

\* a check_package_exists call: state is new, queued (submitted, not started), running,
\* returned or raised; probes is the log of its HEAD requests, [repo, url, ok], ok
\* telling an answer of 200
NewTask ==
    [state |-> "new", repos |-> <<>>, idx |-> 1, check_url |-> None, probes |-> <<>>,
     result |-> None, exc |-> None]

RECURSIVE LoadRows(_, _)
\* line 666: the package of a row is added to those of the rows before it
AddPackage(pkg, rest) ==
    IF pkg.exc # None THEN [exc |-> pkg.exc, packages |-> <<>>]
    ELSE IF rest.exc # None THEN rest
    ELSE [exc |-> None, packages |-> <<pkg>> \o rest.packages]

\* lines 657-666: the packages of the rows, up to the first constructor that raises
LoadRows(rows, mappings) ==
    IF Len(rows) = 0 THEN [exc |-> None, packages |-> <<>>]
    ELSE IF Lower(Strip(rows[1].type)) \notin DOMAIN mappings THEN LoadRows(Tail(rows), mappings)
    ELSE AddPackage(ArtifactPackage(Strip(rows[1].path), Lower(Strip(rows[1].type))),
                    LoadRows(Tail(rows), mappings))

\* lines 710-718: one row of the output file
OutputRow(r) ==
    <<r.path, r.package_name, r.package_type, r.version, r.found,
      IF Truthy(r.repository) THEN r.repository[1] ELSE "",
      IF Truthy(r.error) THEN r.error[1] ELSE "">>

Init ==
    /\ pc = "connect"
    /\ ping = None
    /\ ret = None
    /\ file \in Files
    /\ available_repos = <<>>
    /\ repo_mappings = DEFAULT_REPO_MAPPINGS
    /\ module_mappings = DEFAULT_REPO_MAPPINGS
    /\ own_mappings = FALSE
    /\ refreshes = 0
    /\ read_error = None
    /\ packages = <<>>
    /\ submitted = 0
    /\ tasks = <<>>
    /\ collected = <<>>
    /\ results = <<>>
    /\ output = None

\* CheckConnection that goes on to the repository listing whatever the answer is
CheckConnection_unchecked ==
    /\ pc = "connect"
    /\ \E answer \in PingAnswers :
          /\ ping' = Some(answer)
          /\ pc' = "list" /\ ret' = ret
    /\ UNCHANGED <<module_mappings, own_mappings>>
    /\ UNCHANGED <<file, available_repos, repo_mappings, refreshes, read_error, packages,
                   submitted, tasks, collected, results, output>>

\* lines 631-634
CheckConnection ==
    /\ pc = "connect"
    /\ \E answer \in PingAnswers :
          /\ ping' = Some(answer)
          /\ IF check_artifactory_connection(answer)
             THEN pc' = "list" /\ ret' = ret
             ELSE pc' = "done" /\ ret' = Some(FALSE)
    /\ UNCHANGED <<module_mappings, own_mappings>>
    /\ UNCHANGED <<file, available_repos, repo_mappings, refreshes, read_error, packages,
                   submitted, tasks, collected, results, output>>

\* GetRepositories going on to the input file without update_repository_mappings
GetRepositories_no_refresh ==
    /\ pc = "list"
    /\ \E listing \in Listings :
          /\ available_repos' = listing
          /\ IF listing = <<>>
             THEN pc' = "done" /\ ret' = Some(FALSE)
             ELSE pc' = "read" /\ ret' = ret
    /\ UNCHANGED <<module_mappings, own_mappings>>
    /\ UNCHANGED <<ping, file, repo_mappings, refreshes, read_error, packages, submitted, tasks,
                   collected, results, output>>

\* lines 636-640
GetRepositories ==
    /\ pc = "list"
    /\ \E listing \in Listings :
          /\ available_repos' = listing
          /\ IF listing = <<>>
             THEN pc' = "done" /\ ret' = Some(FALSE)
             ELSE pc' = "update" /\ ret' = ret
    /\ UNCHANGED <<module_mappings, own_mappings>>
    /\ UNCHANGED <<ping, file, repo_mappings, refreshes, read_error, packages, submitted, tasks,
                   collected, results, output>>

\* line 642
UpdateMappings ==
    /\ pc = "update"
    /\ repo_mappings' = update_repository_mappings(repo_mappings, available_repos)
    /\ refreshes' = refreshes + 1
    /\ pc' = "read"
    /\ module_mappings' = IF own_mappings THEN module_mappings ELSE repo_mappings'
    /\ own_mappings' = own_mappings
    /\ UNCHANGED <<ping, ret, file, available_repos, read_error, packages, submitted, tasks,
                   collected, results, output>>

\* lines 644-672: open() may fail; a bad header returns False; a constructor that raises
\* is caught by the except of line 668
Read(opened, loaded) ==
    IF ~opened
    THEN /\ read_error' = Some("OSError")
         /\ pc' = "done" /\ ret' = Some(FALSE)
         /\ UNCHANGED <<packages, tasks>>
    ELSE IF ~file.header_ok
    THEN /\ pc' = "done" /\ ret' = Some(FALSE)
         /\ UNCHANGED <<read_error, packages, tasks>>
    ELSE IF loaded.exc # None
    THEN /\ read_error' = loaded.exc
         /\ pc' = "done" /\ ret' = Some(FALSE)
         /\ UNCHANGED <<packages, tasks>>
    ELSE /\ packages' = loaded.packages
         /\ tasks' = [t \in 1..Len(loaded.packages) |-> NewTask]
         /\ pc' = IF loaded.packages = <<>> THEN "write" ELSE "submit"
         /\ UNCHANGED <<ret, read_error>>

ReadInput ==
    /\ pc = "read"
    /\ \E opened \in BOOLEAN : Read(opened, LoadRows(file.rows, repo_mappings))
    /\ UNCHANGED <<module_mappings, own_mappings>>
    /\ UNCHANGED <<ping, file, available_repos, repo_mappings, refreshes, submitted, collected,
                   results, output>>

\* lines 678-680: executor.submit of the next package
Submit ==
    /\ pc = "submit"
    /\ submitted < Len(packages)
    /\ submitted' = submitted + 1
    /\ tasks' = [tasks EXCEPT ![submitted + 1].state = "queued"]
    /\ pc' = IF submitted + 1 = Len(packages) THEN "collect" ELSE "submit"
    /\ UNCHANGED <<module_mappings, own_mappings>>
    /\ UNCHANGED <<ping, ret, file, available_repos, repo_mappings, refreshes, read_error, packages,
                   collected, results, output>>

Running == {t \in 1..Len(tasks) : tasks[t].state = "running"}

\* the call returns the not-found result once the loop has gone through all of repos
Advance(task, pkg) ==
    IF task.idx + 1 > Len(task.repos)
    THEN [task EXCEPT !.idx = task.idx + 1, !.state = "returned",
                      !.result = Some(not_found_result(pkg, task.repos))]
    ELSE [task EXCEPT !.idx = task.idx + 1]

\* a thread of the pool takes the oldest queued call and runs lines 419-441
TaskStart(t) ==
    /\ tasks[t].state = "queued"
    /\ \A u \in 1..(t - 1) : tasks[u].state # "queued"
    /\ Cardinality(Running) < MaxWorkers
    /\ LET repos == repos_to_check(packages[t], repo_mappings)
           started == [tasks[t] EXCEPT !.state = "running", !.repos = repos, !.idx = 0]
       IN tasks' = [tasks EXCEPT ![t] = Advance(started, packages[t])]
    /\ UNCHANGED <<module_mappings, own_mappings>>
    /\ UNCHANGED <<ping, pc, ret, file, available_repos, repo_mappings, refreshes, read_error,
                   packages, submitted, collected, results, output>>

\* the call returns found for the candidate repo
Found(task, pkg, repo, version) ==
    [task EXCEPT !.state = "returned", !.result = Some(found_result(pkg, repo, version))]

\* a HEAD request of the call is logged
Logged(task, repo, url, outcome) ==
    [task EXCEPT !.probes = Append(task.probes, [repo |-> repo, url |-> url, ok |-> outcome = "200"])]

\* CommonHead that goes on to the next candidate after an answer of 200
CommonHead_no_return(task, pkg, repo, url, outcome) ==
    IF url = None THEN Advance(task, pkg)
    ELSE Advance(Logged(task, repo, url, outcome), pkg)

\* CommonHead without the except: an exception of the request leaves the call
CommonHead_no_except(task, pkg, repo, url, outcome) ==
    IF url = None THEN Advance(task, pkg)
    ELSE IF outcome = "200" THEN Found(Logged(task, repo, url, outcome), pkg, repo, pkg.version)
    ELSE IF outcome = "raise"
    THEN [Logged(task, repo, url, outcome) EXCEPT !.state = "raised", !.exc = Some("ConnectionError")]
    ELSE Advance(Logged(task, repo, url, outcome), pkg)

\* lines 538-554: the HEAD request every branch without a continue ends in
CommonHead(task, pkg, repo, url, outcome) ==
    \* session.head(None) raises inside the try before any request is sent
    IF url = None THEN Advance(task, pkg)
    ELSE IF outcome = "200" THEN Found(Logged(task, repo, url, outcome), pkg, repo, pkg.version)
    ELSE Advance(Logged(task, repo, url, outcome), pkg)

\* one pass of the loop of lines 443-554 for the candidate repo, pr being what prepare
\* gives for it and task holding the check_url of pr; the pass changes tasks[t]
Pass(t, task, pkg, repo, pr) ==
    IF pr.raises THEN tasks' = [tasks EXCEPT ![t].state = "raised", ![t].exc = Some(TypeError)]
    ELSE \E o1 \in HeadOutcomes :
        IF pr.branch = "first"
        THEN IF o1 = "200"
             THEN tasks' = [tasks EXCEPT ![t] =
                     Found(Logged(task, repo, pr.url, o1), pkg, repo,
                           IF is_metadata_file(pkg) /\ pkg.package_type = "maven"
                           THEN None ELSE pkg.version)]
             ELSE IF o1 = "raise"
             THEN tasks' = [tasks EXCEPT ![t] = Advance(Logged(task, repo, pr.url, o1), pkg)]
             \* any other status: no continue, the HEAD of line 540 follows
             ELSE \E o2 \in HeadOutcomes :
                     tasks' = [tasks EXCEPT ![t] =
                         CommonHead(Logged(task, repo, pr.url, o1), pkg, repo, pr.url, o2)]
        ELSE tasks' = [tasks EXCEPT ![t] = CommonHead(task, pkg, repo, pr.url, o1)]

TaskStep(t) ==
    /\ tasks[t].state = "running"
    /\ Pass(t,
            [tasks[t] EXCEPT !.check_url =
                prepare(packages[t], tasks[t].repos[tasks[t].idx], tasks[t].check_url).url],
            packages[t], tasks[t].repos[tasks[t].idx],
            prepare(packages[t], tasks[t].repos[tasks[t].idx], tasks[t].check_url))
    /\ UNCHANGED <<module_mappings, own_mappings>>
    /\ UNCHANGED <<ping, pc, ret, file, available_repos, repo_mappings, refreshes, read_error,
                   packages, submitted, collected, results, output>>

\* Collect that leaves the loop of as_completed after the first future
Collect_first_future_only(t) ==
    /\ pc = "collect"
    /\ ~InList(t, collected)
    /\ tasks[t].state \in {"returned", "raised"}
    /\ results' = Append(results,
                         IF tasks[t].state = "returned" THEN tasks[t].result[1]
                         ELSE fault_result(packages[t], tasks[t].exc[1]))
    /\ collected' = Append(collected, t)
    /\ pc' = "write"
    /\ UNCHANGED <<module_mappings, own_mappings>>
    /\ UNCHANGED <<ping, ret, file, available_repos, repo_mappings, refreshes, read_error, packages,
                   submitted, tasks, output>>

\* Collect without the except branch: a call that raised leaves no result
Collect_no_fault_result(t) ==
    /\ pc = "collect"
    /\ ~InList(t, collected)
    /\ tasks[t].state \in {"returned", "raised"}
    /\ results' = IF tasks[t].state = "returned" THEN Append(results, tasks[t].result[1])
                  ELSE results
    /\ collected' = Append(collected, t)
    /\ pc' = IF Len(collected') = Len(packages) THEN "write" ELSE "collect"
    /\ UNCHANGED <<module_mappings, own_mappings>>
    /\ UNCHANGED <<ping, ret, file, available_repos, repo_mappings, refreshes, read_error, packages,
                   submitted, tasks, output>>

\* lines 682-699: as_completed yields a finished future; its result, or the result the
\* except builds, is appended
Collect(t) ==
    /\ pc = "collect"
    /\ ~InList(t, collected)
    /\ tasks[t].state \in {"returned", "raised"}
    /\ results' = Append(results,
                         IF tasks[t].state = "returned" THEN tasks[t].result[1]
                         ELSE fault_result(packages[t], tasks[t].exc[1]))
    /\ collected' = Append(collected, t)
    /\ pc' = IF Len(collected') = Len(packages) THEN "write" ELSE "collect"
    /\ UNCHANGED <<module_mappings, own_mappings>>
    /\ UNCHANGED <<ping, ret, file, available_repos, repo_mappings, refreshes, read_error, packages,
                   submitted, tasks, output>>

\* lines 701-725
WriteOutput ==
    /\ pc = "write"
    /\ \E written \in BOOLEAN :
          IF written
          THEN /\ output' = Some([i \in 1..Len(results) |-> OutputRow(results[i])])
               /\ ret' = Some(TRUE)
          ELSE /\ output' = output
               /\ ret' = Some(FALSE)
    /\ pc' = "done"
    /\ UNCHANGED <<module_mappings, own_mappings>>
    /\ UNCHANGED <<ping, file, available_repos, repo_mappings, refreshes, read_error, packages,
                   submitted, tasks, collected, results>>

\* the segments a path handed to the resolver alone is made of
Segments ==
    {"", "r", "a", "@s", "1.0", "_uploads", "modules", "maven-metadata.xml", "package.json",
     "a-1.0.tgz", "a.1.2.3.nupkg"}

ResolverPaths == {Join("/", segs) : segs \in UNION {[1..n -> Segments] : n \in 0..MaxSegments}}

\* the resolver alone: ArtifactPackage(path, package_type) for one row
InitResolver ==
    /\ pc = "resolve"
    /\ ping = None
    /\ ret = None
    /\ file \in {[header_ok |-> TRUE, rows |-> <<[path |-> p, type |-> e]>>] :
                    p \in ResolverPaths, e \in Ecosystems}
    /\ available_repos = <<>>
    /\ repo_mappings = DEFAULT_REPO_MAPPINGS
    /\ module_mappings = DEFAULT_REPO_MAPPINGS
    /\ own_mappings = FALSE
    /\ refreshes = 0
    /\ read_error = None
    /\ packages = <<>>
    /\ submitted = 0
    /\ tasks = <<>>
    /\ collected = <<>>
    /\ results = <<>>
    /\ output = None

Resolve ==
    /\ pc = "resolve"
    /\ packages' = <<ArtifactPackage(file.rows[1].path, file.rows[1].type)>>
    /\ pc' = "resolved"
    /\ UNCHANGED <<module_mappings, own_mappings>>
    /\ UNCHANGED <<ping, ret, file, available_repos, repo_mappings, refreshes, read_error, submitted,
                   tasks, collected, results, output>>

SpecResolver == InitResolver /\ [][Resolve]_vars

\* the same path resolved twice, the catalog refreshed in between; some paths start with
\* a key of the default catalog
DeterminismPaths ==
    ResolverPaths
    \cup {Join("/", <<"maven-remote">> \o segs) :
              segs \in UNION {[1..n -> Segments] : n \in 0..(MaxSegments - 1)}}

InitDeterminism ==
    /\ pc = "resolve"
    /\ ping = None
    /\ ret = None
    /\ file \in {[header_ok |-> TRUE, rows |-> <<[path |-> p, type |-> e]>>] :
                    p \in DeterminismPaths, e \in Ecosystems}
    /\ available_repos = <<>>
    /\ repo_mappings = DEFAULT_REPO_MAPPINGS
    /\ module_mappings = DEFAULT_REPO_MAPPINGS
    /\ own_mappings = FALSE
    /\ refreshes = 0
    /\ read_error = None
    /\ packages = <<>>
    /\ submitted = 0
    /\ tasks = <<>>
    /\ collected = <<>>
    /\ results = <<>>
    /\ output = None

\* lines 637-642 between the two resolutions
RefreshBetween ==
    /\ pc = "resolved"
    /\ \E listing \in Listings \ {<<>>} :
          /\ available_repos' = listing
          /\ repo_mappings' = update_repository_mappings(repo_mappings, listing)
    /\ refreshes' = refreshes + 1
    /\ pc' = "refreshed"
    /\ module_mappings' = IF own_mappings THEN module_mappings ELSE repo_mappings'
    /\ own_mappings' = own_mappings
    /\ UNCHANGED <<ping, ret, file, read_error, packages, submitted, tasks, collected, results,
                   output>>

\* ArtifactPackage(path, package_type) once more for the same row
ResolveAgain ==
    /\ pc = "refreshed"
    /\ packages' = Append(packages, ArtifactPackage(file.rows[1].path, file.rows[1].type))
    /\ pc' = "resolved again"
    /\ UNCHANGED <<module_mappings, own_mappings>>
    /\ UNCHANGED <<ping, ret, file, available_repos, repo_mappings, refreshes, read_error,
                   submitted, tasks, collected, results, output>>

SpecDeterminism == InitDeterminism /\ [][Resolve \/ RefreshBetween \/ ResolveAgain]_vars

\* the metadata descriptor of an ecosystem that has one
DescriptorNames ==
    [e \in {"maven", "npm", "python", "nuget"} |->
        CASE e = "maven" -> "maven-metadata.xml"
          [] e = "npm" -> "package.json"
          [] e = "python" -> "index.html"
          [] e = "nuget" -> "index.json"]

\* the rows that name a metadata descriptor, at every depth up to MaxSegments directories
DescriptorRows ==
    {[path |-> Join("/", dirs \o <<DescriptorNames[e]>>), type |-> e] :
        dirs \in UNION {[1..n -> {"r", "@s", "maven-local"}] : n \in 0..MaxSegments},
        e \in DOMAIN DescriptorNames}

\* a run of process_package_list on a file with one descriptor row
InitDescriptors ==
    /\ pc = "connect"
    /\ ping = None
    /\ ret = None
    /\ file \in {[header_ok |-> TRUE, rows |-> <<row>>] : row \in DescriptorRows}
    /\ available_repos = <<>>
    /\ repo_mappings = DEFAULT_REPO_MAPPINGS
    /\ module_mappings = DEFAULT_REPO_MAPPINGS
    /\ own_mappings = FALSE
    /\ refreshes = 0
    /\ read_error = None
    /\ packages = <<>>
    /\ submitted = 0
    /\ tasks = <<>>
    /\ collected = <<>>
    /\ results = <<>>
    /\ output = None

\* the segments of the deep paths of an ecosystem: directories, a version, the descriptor
\* and a file for maven; a namespace, the upload marker, a hyphenated tag and an internal
\* marker for docker; a scope, the descriptor and a tarball for npm
DeepSegments ==
    [e \in {"maven", "docker", "npm"} |->
        CASE e = "maven" -> {"r", "g", "1.0", "maven-metadata.xml", "a-1.0.jar"}
          [] e = "docker" -> {"r", "n", "_uploads", "a-b", "_x"}
          [] e = "npm" -> {"r", "@s", "a", "package.json", "a-1.0.tgz"}]

DeepPaths(e) ==
    {Join("/", segs) : segs \in UNION {[1..n -> DeepSegments[e]] : n \in 0..MaxDeepSegments}}

\* the resolver alone on a deep path: no row yet
InitDeep ==
    /\ pc = "input"
    /\ ping = None
    /\ ret = None
    /\ file = [header_ok |-> TRUE, rows |-> <<>>]
    /\ available_repos = <<>>
    /\ repo_mappings = DEFAULT_REPO_MAPPINGS
    /\ module_mappings = DEFAULT_REPO_MAPPINGS
    /\ own_mappings = FALSE
    /\ refreshes = 0
    /\ read_error = None
    /\ packages = <<>>
    /\ submitted = 0
    /\ tasks = <<>>
    /\ collected = <<>>
    /\ results = <<>>
    /\ output = None

\* the caller hands a deep path of one of the three ecosystems to the resolver
ReceiveDeep ==
    /\ pc = "input"
    /\ \E e \in DOMAIN DeepSegments : \E p \in DeepPaths(e) :
          file' = [header_ok |-> TRUE, rows |-> <<[path |-> p, type |-> e]>>]
    /\ pc' = "resolve"
    /\ UNCHANGED <<module_mappings, own_mappings>>
    /\ UNCHANGED <<ping, ret, available_repos, repo_mappings, refreshes, read_error, packages,
                   submitted, tasks, collected, results, output>>

SpecDeep == InitDeep /\ [][ReceiveDeep \/ Resolve]_vars

\* the most tokens of a bare NuGet filename before its extension
MaxTokens == 5

\* the pieces bare NuGet filenames are built of: a letter, a digit, a dot, a numeric
\* part and the two kinds of suffix
NugetTokens == {"a", "1", ".", ".1", "-b", "+b"}

\* bare filenames <base>.nupkg: no '/', so no repository hint
NugetFilenames ==
    {Join("", toks) \o ".nupkg" : toks \in UNION {[1..n -> NugetTokens] : n \in 1..MaxTokens}}

\* the caller hands a bare NuGet filename to the resolver
ReceiveNuget ==
    /\ pc = "input"
    /\ \E f \in NugetFilenames :
          file' = [header_ok |-> TRUE, rows |-> <<[path |-> f, type |-> "nuget"]>>]
    /\ pc' = "resolve"
    /\ UNCHANGED <<module_mappings, own_mappings>>
    /\ UNCHANGED <<ping, ret, available_repos, repo_mappings, refreshes, read_error, packages,
                   submitted, tasks, collected, results, output>>

SpecNuget == InitDeep /\ [][ReceiveNuget \/ Resolve]_vars

\* the keys and package types of the listings handed to update_repository_mappings alone
RefreshKeys == {"maven-local", "maven-virtual", "npm-x", "pypi-local", "m2"}
RefreshTypes == {"maven", "npm", "pypi", "generic"}

\* a dict has every key once
RefreshListings ==
    {l \in UNION {[1..n -> [key : RefreshKeys, packageType : RefreshTypes]] : n \in 0..MaxListing} :
        \A i, j \in 1..Len(l) : l[i].key = l[j].key => i = j}

\* the repo_mappings a checker may be constructed with: the module default, or lists of
\* the caller, an empty one among them
Seeds ==
    { DEFAULT_REPO_MAPPINGS,
      [e \in Ecosystems |->
          CASE e = "maven" -> <<"m2", "maven-local">>
            [] e = "npm" -> <<>>
            [] OTHER -> DEFAULT_REPO_MAPPINGS[e]] }

\* update_repository_mappings alone, on a listing and a seed
InitRefresh ==
    /\ pc = "refresh"
    /\ ping = None
    /\ ret = None
    /\ file = [header_ok |-> TRUE, rows |-> <<>>]
    /\ available_repos \in RefreshListings
    /\ repo_mappings \in Seeds
    /\ module_mappings = DEFAULT_REPO_MAPPINGS
    /\ own_mappings = (repo_mappings # DEFAULT_REPO_MAPPINGS)
    /\ refreshes = 0
    /\ read_error = None
    /\ packages = <<>>
    /\ submitted = 0
    /\ tasks = <<>>
    /\ collected = <<>>
    /\ results = <<>>
    /\ output = None

Refresh ==
    /\ pc = "refresh"
    /\ repo_mappings' = update_repository_mappings(repo_mappings, available_repos)
    /\ refreshes' = refreshes + 1
    /\ pc' = "refreshed"
    /\ module_mappings' = IF own_mappings THEN module_mappings ELSE repo_mappings'
    /\ own_mappings' = own_mappings
    /\ UNCHANGED <<ping, ret, file, available_repos, read_error, packages, submitted, tasks,
                   collected, results, output>>

SpecRefresh == InitRefresh /\ [][Refresh]_vars

Next ==
    \/ CheckConnection
    \/ GetRepositories
    \/ UpdateMappings
    \/ ReadInput
    \/ Submit
    \/ \E t \in 1..Len(tasks) : TaskStart(t)
    \/ \E t \in 1..Len(tasks) : TaskStep(t)
    \/ \E t \in 1..Len(tasks) : Collect(t)
    \/ WriteOutput

Spec == Init /\ [][Next]_vars

SpecDescriptors == InitDescriptors /\ [][Next]_vars

\* the repo_mappings argument of a constructor: None, or a mapping of the caller
Overrides == {None} \cup {Some(m) : m \in Seeds \ {DEFAULT_REPO_MAPPINGS}}

\* line 313 for the next checker of the process, built after the refresh of the first:
\* repo_mappings now stands for the attribute of the new checker
ConstructAgain ==
    /\ pc = "refreshed"
    /\ \E override \in Overrides :
          \* a mapping with keys is truthy
          /\ repo_mappings' = IF override # None THEN override[1] ELSE module_mappings
          /\ own_mappings' = (override # None)
    /\ pc' = "constructed"
    /\ UNCHANGED <<ping, ret, file, available_repos, module_mappings, refreshes, read_error,
                   packages, submitted, tasks, collected, results, output>>

\* a checker is built and refreshed, then another checker is built in the same process
SpecSeeds == InitRefresh /\ [][Refresh \/ ConstructAgain]_vars

\* a resolved row of each ecosystem with a repository hint outside the catalog (a scoped
\* and an unscoped one for npm), and a bare file name without a hint
UrlRows ==
    { [path |-> "m/g/a/1/a-1.jar", type |-> "maven"],
      [path |-> "r/@s/a/1.0/x", type |-> "npm"],
      [path |-> "r/a/1.0", type |-> "npm"],
      [path |-> "r/simple/a/a-1.0.tar.gz", type |-> "python"],
      [path |-> "r/a/1.0", type |-> "nuget"],
      [path |-> "r/modules/n/a/1.0", type |-> "terraform"],
      [path |-> "r/n/a/1.0", type |-> "docker"],
      [path |-> "a.1.2.3.nupkg", type |-> "nuget"] }

\* a run of process_package_list on a file with one of these rows
InitUrls ==
    /\ pc = "connect"
    /\ ping = None
    /\ ret = None
    /\ file \in {[header_ok |-> TRUE, rows |-> <<row>>] : row \in UrlRows}
    /\ available_repos = <<>>
    /\ repo_mappings = DEFAULT_REPO_MAPPINGS
    /\ module_mappings = DEFAULT_REPO_MAPPINGS
    /\ own_mappings = FALSE
    /\ refreshes = 0
    /\ read_error = None
    /\ packages = <<>>
    /\ submitted = 0
    /\ tasks = <<>>
    /\ collected = <<>>
    /\ results = <<>>
    /\ output = None

SpecUrls == InitUrls /\ [][Next]_vars

(***************************************************************************)
(* Properties                                                              *)
(***************************************************************************)
\* an identity is unresolved: no name, or no version outside the metadata descriptors
Unresolved(pkg) == pkg.package_name = None \/ (pkg.version = None /\ ~is_metadata_file(pkg))

\* the repository hint of an identity, as a sequence of at most one key
HintOf(pkg) == IF pkg.repo # None /\ pkg.repo[1] # "" THEN <<pkg.repo[1]>> ELSE <<>>

\* the probe order as the specification states it
ProbeOrder(pkg, catalog) ==
    HintOf(pkg) \o SelectSeq(catalog[pkg.package_type], LAMBDA r : <<r>> # HintOf(pkg))

\* the repositories of the HEAD requests of a call, in the order of the requests
ProbedRepos(task) == [i \in 1..Len(task.probes) |-> task.probes[i].repo]

RECURSIVE Collapse(_)
\* seq with every run of equal elements reduced to one
Collapse(seq) ==
    IF Len(seq) <= 1 THEN seq
    ELSE IF seq[1] = seq[2] THEN Collapse(Tail(seq))
    ELSE <<seq[1]>> \o Collapse(Tail(seq))

\* the position of a repository in the probe order of a call, 0 if it is not in it
Pos(task, repo) ==
    IF InList(repo, task.repos) THEN IndexOf(repo, task.repos) + 1 ELSE 0

Started(t) == tasks[t].state \in {"running", "returned", "raised"}
NoHit(task) == \A i \in 1..Len(task.probes) : ~task.probes[i].ok
CountPath(seq, path) == Cardinality({i \in 1..Len(seq) : seq[i].path = path})

\* C1: an unresolved identity gets no HEAD request at all, and its call returns a result
\* with found false and a non-empty error (it does not raise).
C1_NoProbeForUnresolved ==
    \A t \in 1..Len(tasks) :
        Unresolved(packages[t]) =>
            /\ tasks[t].probes = <<>>
            /\ tasks[t].state # "raised"
            /\ tasks[t].state = "returned" =>
                  (~tasks[t].result[1].found /\ Truthy(tasks[t].result[1].error))

\* C2: a HEAD request answered 200 is the last request of its call; the call has
\* returned found with the repository of that request, and no request of the call went
\* to a candidate that comes after it in the probe order.
C2_FirstMatchWins ==
    \A t \in 1..Len(tasks) : \A i \in 1..Len(tasks[t].probes) :
        tasks[t].probes[i].ok =>
            /\ i = Len(tasks[t].probes)
            /\ tasks[t].state = "returned"
            /\ tasks[t].result[1].found
            /\ tasks[t].result[1].repository = Some(tasks[t].probes[i].repo)
            /\ \A k \in 1..Len(tasks[t].probes) :
                  Pos(tasks[t], tasks[t].probes[k].repo) <= Pos(tasks[t], tasks[t].probes[i].repo)

\* C2 witness: a call found the artifact in its second candidate, a third one unprobed
C2_Witness ==
    \E t \in 1..Len(tasks) :
        /\ tasks[t].state = "returned"
        /\ tasks[t].result[1].found
        /\ Len(tasks[t].repos) >= 3
        /\ tasks[t].result[1].repository = Some(tasks[t].repos[2])
        /\ ~tasks[t].probes[1].ok

\* C3: the candidates of a started call are the hint, if present, then the catalog
\* candidates of its ecosystem without the hint, in catalog order; the repositories of
\* its HEAD requests, in the order of the requests, run through a prefix of that order,
\* so the first request goes to the hint.
C3_ProbeOrder ==
    \A t \in 1..Len(tasks) :
        Started(t) =>
            /\ tasks[t].repos = ProbeOrder(packages[t], repo_mappings)
            /\ \E k \in 0..Len(tasks[t].repos) :
                  Collapse(ProbedRepos(tasks[t])) = SubSeq(tasks[t].repos, 1, k)
            /\ (HintOf(packages[t]) # <<>> /\ tasks[t].probes # <<>>) =>
                  tasks[t].probes[1].repo = HintOf(packages[t])[1]

\* C3 witness: the hint is a later key of the catalog, and the call went through the
\* hint and then the catalog key before it
C3_Witness ==
    \E t \in 1..Len(tasks) :
        /\ tasks[t].state = "returned"
        /\ HintOf(packages[t]) # <<>>
        /\ Len(repo_mappings[packages[t].package_type]) >= 2
        /\ repo_mappings[packages[t].package_type][2] = HintOf(packages[t])[1]
        /\ Collapse(ProbedRepos(tasks[t]))
              = <<HintOf(packages[t])[1], repo_mappings[packages[t].package_type][1]>>

C5_Exhausted ==
    \A t \in 1..Len(tasks) :
        /\ (tasks[t].state = "returned" /\ ~tasks[t].result[1].found) =>
              /\ tasks[t].result[1].repository = None
              /\ tasks[t].result[1].error
                    = Some("Package not found in repositories: "
                           \o Join(", ", Collapse(ProbedRepos(tasks[t]))))
              /\ Collapse(ProbedRepos(tasks[t])) = tasks[t].repos
              /\ NoHit(tasks[t])
        /\ (Started(t) /\ NoHit(tasks[t]) /\ Collapse(ProbedRepos(tasks[t])) = tasks[t].repos) =>
              (tasks[t].state = "returned" /\ ~tasks[t].result[1].found)

\* C5 witness: a call with a hint and a catalog candidate missed on both
C5_Witness ==
    \E t \in 1..Len(tasks) :
        /\ tasks[t].state = "returned"
        /\ ~tasks[t].result[1].found
        /\ HintOf(packages[t]) # <<>>
        /\ Len(tasks[t].repos) >= 2
        /\ Len(tasks[t].probes) > Len(tasks[t].repos)

\* C6: while the futures are collected there is one result per future yielded; once all
\* are collected the results list is as long as the list of submitted packages and holds
\* each path as often as the packages do.
C6_Cardinality ==
    /\ Len(results) = Len(collected)
    /\ Len(results) <= Len(packages)
    /\ pc \in {"write", "done"} =>
          /\ Len(results) = Len(packages)
          /\ \A i \in 1..Len(packages) :
                CountPath(results, packages[i].path) = CountPath(packages, packages[i].path)

\* C6 witness: two rows with the same path, one call raised and the other found it
C6_Witness ==
    /\ pc = "write"
    /\ \E t, u \in 1..Len(tasks) :
          /\ t # u
          /\ packages[t].path = packages[u].path
          /\ tasks[t].state = "raised"
          /\ tasks[u].state = "returned"

\* C7: the result collected for a call that raised has found false, repository None and
\* the message of the exception as error, with the path, name, type and version of its
\* identity; the result collected for every other call is the one the call returned;
\* a call that raised never leaves the run without a next step, and when the collection
\* is over every call has its result.
C7_FaultIsolation ==
    /\ \A i \in 1..Len(results) :
          /\ tasks[collected[i]].state = "raised" =>
                results[i] = [path |-> packages[collected[i]].path,
                              package_name |-> packages[collected[i]].package_name,
                              package_type |-> packages[collected[i]].package_type,
                              version |-> packages[collected[i]].version,
                              found |-> FALSE, repository |-> None,
                              error |-> Some(TypeError)]
          /\ tasks[collected[i]].state = "returned" => results[i] = tasks[collected[i]].result[1]
    /\ \A t, u \in 1..Len(collected) : t # u => collected[t] # collected[u]
    /\ (pc \in {"submit", "collect"} /\ \E t \in 1..Len(tasks) : tasks[t].state = "raised") =>
          ENABLED Next
    /\ (pc \in {"write", "done"} /\ \E t \in 1..Len(tasks) : tasks[t].state = "raised") =>
          \A t \in 1..Len(tasks) : InList(t, collected)

\* C7 witness: the batch was written with the result of a call that raised and the
\* result of a call that found its artifact
C7_Witness ==
    /\ pc = "done"
    /\ ret = Some(TRUE)
    /\ \E i, j \in 1..Len(results) :
          /\ tasks[collected[i]].state = "raised"
          /\ results[i].error = Some(TypeError)
          /\ results[j].found

\* C8: ArtifactPackage(path, ecosystem) returns an identity for every path and each of
\* the six ecosystems; it never raises.
C8_ResolverNeverRaises == pc = "resolved" => packages[1].exc = None

\* C9: once the connection check and the catalog refresh have succeeded, no row with a
\* supported ecosystem tag makes process_package_list return False: a False after the
\* refresh comes from the file itself (open, header) or from writing the output.
C9_RowNeverAborts ==
    (refreshes = 1 /\ ret = Some(FALSE)) => read_error \in {None, Some("OSError")}

\* C10: no package is submitted before update_repository_mappings has run; it runs at
\* most once, repo_mappings then is its result for the listing received, every started
\* call has taken its candidates from that catalog, and no later step writes
\* repo_mappings.
C10_RefreshBarrier ==
    /\ [](/\ refreshes <= 1
          /\ submitted > 0 =>
                /\ refreshes = 1
                /\ repo_mappings = update_repository_mappings(DEFAULT_REPO_MAPPINGS, available_repos)
                /\ \A t \in 1..Len(tasks) :
                      Started(t) => tasks[t].repos = repos_to_check(packages[t], repo_mappings))
    /\ [][refreshes = 1 => repo_mappings' = repo_mappings]_vars

\* C10 witness: calls run on a catalog that the refresh changed
C10_Witness ==
    /\ refreshes = 1
    /\ repo_mappings # DEFAULT_REPO_MAPPINGS
    /\ \E t, u \in 1..Len(tasks) : t # u /\ tasks[t].state = "running" /\ tasks[u].state = "running"

\* the run has verified nothing, changed no catalog and written nothing
NothingDone ==
    /\ packages = <<>> /\ tasks = <<>> /\ submitted = 0
    /\ collected = <<>> /\ results = <<>> /\ output = None
    /\ refreshes = 0 /\ repo_mappings = DEFAULT_REPO_MAPPINGS

\* the ping was answered with status 200 and the body OK
PingOk == ping # None /\ ~ping[1].raised /\ ping[1].status = 200 /\ ping[1].text = "OK"

\* C11: once the ping has failed (an exception, a status other than 200 or a body other
\* than OK), and once the repository listing has failed or come back empty, the run has
\* returned False, no check_package_exists call exists, repo_mappings is the seed and no
\* result or output was written.
C11_SetupFailureAborts ==
    /\ (ping # None /\ ~PingOk) =>
          (pc = "done" /\ ret = Some(FALSE) /\ NothingDone /\ available_repos = <<>>)
    /\ (PingOk /\ pc # "list" /\ available_repos = <<>>) =>
          (pc = "done" /\ ret = Some(FALSE) /\ NothingDone)
    /\ pc \in {"connect", "list"} => (ret = None /\ NothingDone)

\* C11 witness: the listing failed after a good ping, with rows waiting in the input file
C11_Witness ==
    /\ PingOk
    /\ pc = "done"
    /\ available_repos = <<>>
    /\ file.header_ok /\ file.rows # <<>>
    /\ ret = Some(FALSE)

\* the repository type that a live repository of an ecosystem reports
LiveType(e) == IF e = "python" THEN "pypi" ELSE e

\* the live repositories of the type of an ecosystem, in the order of the listing
LiveOfType(e) ==
    LET hits == SelectSeq(available_repos, LAMBDA r : r.packageType = LiveType(e))
    IN [i \in 1..Len(hits) |-> hits[i].key]

\* the keys of a list that are keys of the live catalog, in the order of the list
PresentKeys(list) ==
    SelectSeq(list, LAMBDA k : \E i \in 1..Len(available_repos) : available_repos[i].key = k)

\* C12 as stated: after the refresh, every ecosystem with a seeded key in the live catalog
\* has exactly its present seeded keys, in their order, as candidates; every other
\* ecosystem has all live repositories of its type.
C12_RefreshRule ==
    [][pc = "refresh" =>
          \A e \in DOMAIN repo_mappings :
              repo_mappings'[e] = IF PresentKeys(repo_mappings[e]) # <<>>
                                  THEN PresentKeys(repo_mappings[e])
                                  ELSE LiveOfType(e)]_vars

\* C12, for the ecosystems of which the live catalog holds a repository of the matching
\* type: after the refresh the candidates are the present seeded keys in their order if
\* there is one, and otherwise all live repositories of the type, in listing order.
C12_RefreshRuleWhereTypeIsLive ==
    [][pc = "refresh" =>
          /\ DOMAIN repo_mappings' = DOMAIN repo_mappings
          /\ \A e \in DOMAIN repo_mappings :
                LiveOfType(e) # <<>> =>
                    repo_mappings'[e] = IF PresentKeys(repo_mappings[e]) # <<>>
                                        THEN PresentKeys(repo_mappings[e])
                                        ELSE LiveOfType(e)]_vars

\* C12 witness: maven keeps its two present keys in seed order though the listing has
\* them the other way round, and npm, with none of its keys live, takes the live npm
\* repository
C12_Witness ==
    /\ pc = "refreshed"
    /\ Len(available_repos) >= 3
    /\ available_repos[1] = [key |-> "maven-virtual", packageType |-> "maven"]
    /\ available_repos[2].key = "maven-local"
    /\ repo_mappings["maven"] = <<"maven-local", "maven-virtual">>
    /\ repo_mappings["npm"] = <<"npm-x">>

\* C13: the refresh always runs to its end without an error, and an ecosystem of whose
\* type the listing holds no repository has the same candidate list after it as before.
C13_NoLiveTypeKeepsList ==
    /\ [](pc = "refresh" => ENABLED Refresh)
    /\ [][pc = "refresh" =>
            /\ pc' = "refreshed" /\ ret' = None /\ read_error' = None
            /\ \A e \in DOMAIN repo_mappings :
                  LiveOfType(e) = <<>> => repo_mappings'[e] = repo_mappings[e]]_vars

\* C13 witness: the listing has the key maven-local under another type and no maven
\* repository; maven keeps all three seeded keys while npm was refreshed
C13_Witness ==
    /\ pc = "refreshed"
    /\ \E i \in 1..Len(available_repos) :
          available_repos[i].key = "maven-local" /\ available_repos[i].packageType = "generic"
    /\ \A i \in 1..Len(available_repos) : available_repos[i].packageType # "maven"
    /\ repo_mappings["maven"] = DEFAULT_REPO_MAPPINGS["maven"]
    /\ repo_mappings["npm"] = <<"npm-x">>

IsDescriptor(pkg) ==
    /\ pkg.package_type \in DOMAIN DescriptorNames
    /\ Split(pkg.path, "/")[Len(Split(pkg.path, "/"))] = DescriptorNames[pkg.package_type]

RowType == file.rows[1].type
RowParts == Split(file.rows[1].path, "/")

\* what C16 says of the identity pkg resolved from the maven path with the segments parts
MavenResolution(parts, pkg) ==
    /\ (Len(parts) >= 5 /\ parts[Len(parts)] # "maven-metadata.xml") =>
          /\ pkg.exc = None
          /\ pkg.repo = Some(parts[1])
          /\ pkg.package_name
                = Some(Join(".", SubSeq(parts, 2, Len(parts) - 3)) \o ":" \o parts[Len(parts) - 2])
          /\ pkg.version = Some(parts[Len(parts) - 1])
    /\ (Len(parts) >= 4 /\ parts[Len(parts)] = "maven-metadata.xml") =>
          /\ pkg.exc = None
          /\ pkg.repo = Some(parts[1])
          /\ pkg.package_name
                = Some(Join(".", SubSeq(parts, 2, Len(parts) - 2)) \o ":" \o parts[Len(parts) - 1])
          /\ pkg.version = None

DockerName(parts) == Some(parts[2] \o "/" \o parts[3])

\* C17: a docker path with at least three segments resolves to the name
\* <second segment>/<third segment>, whatever the other segments are.
C17_DockerName ==
    (pc = "resolved" /\ RowType = "docker" /\ Len(RowParts) >= 3) =>
        packages[1].package_name = DockerName(RowParts)

\* what C18 says of the version resolved from a docker path with the segments parts
DockerTag(parts) ==
    IF \E i \in 1..Len(parts) : parts[i] = "_uploads" THEN Some("latest")
    ELSE IF Len(parts) >= 4 /\ SubSeq(parts[4], 1, 1) # "_" THEN Some(parts[4])
    ELSE Some("latest")

\* C18: the version of a docker path is latest if a segment is _uploads; otherwise the
\* fourth segment, whole, if there is one and it does not start with '_'; otherwise
\* latest. The last segment of a path of five or more segments plays no part.
C18_DockerTag ==
    (pc = "resolved" /\ RowType = "docker") =>
        (packages[1].exc = None /\ packages[1].version = DockerTag(RowParts))

\* C18 witness: a hyphenated tag directory with two more segments after it
C18_Witness ==
    /\ pc = "resolved"
    /\ file.rows[1] = [path |-> "r/n/r/a-b/n/r", type |-> "docker"]
    /\ packages[1].version = Some("a-b")

\* the positions of the dots of base that have at least one character before them and a
\* version (major.minor.patch, an optional fourth numeric part, an optional pre-release or
\* build suffix) as everything after them
VersionDots(base) ==
    {p \in 2..Len(base) : Char(base, p) = "." /\ IsNugetVersion(base, p + 1)}

\* what C19 says of the identity pkg resolved from the bare filename base.nupkg
NugetSplit(base, dots, pkg) ==
    dots # {} =>
        /\ pkg.exc = None
        /\ pkg.repo = None
        /\ pkg.package_name # None
        /\ pkg.version # None
        /\ pkg.package_name[1] \o "." \o pkg.version[1] = base
        /\ Len(pkg.package_name[1]) + 1 \in dots
        /\ \A p \in dots : p - 1 <= Len(pkg.package_name[1])

\* C19: a bare filename <base>.nupkg whose base is a non-empty package id, a dot and a
\* version resolves, with no repository hint, to a name and a version with
\* name + "." + version = base, the name being the longest prefix of base that leaves a
\* version as the remainder.
C19_NugetFilenameSplit ==
    (pc = "resolved" /\ RowType = "nuget") =>
        LET base == SubSeq(packages[1].path, 1, Len(packages[1].path) - 6)
        IN NugetSplit(base, VersionDots(base), packages[1])

\* C19 witness: a base with two splits, a.1 + 1.1.1 and a + 1.1.1.1; the longer name wins
C19_Witness ==
    /\ pc = "resolved"
    /\ file.rows[1] = [path |-> "a.1.1.1.1.nupkg", type |-> "nuget"]
    /\ packages[1].package_name = Some("a.1")
    /\ packages[1].version = Some("1.1.1")

\* what C20 says of the name resolved from an npm path with the segments parts
NpmName(parts) ==
    IF SubSeq(parts[2], 1, 1) = "@" THEN Some(parts[2] \o "/" \o parts[3]) ELSE Some(parts[2])

\* C20: an npm path with at least three segments resolves to the name
\* <second segment>/<third segment> if the second segment starts with '@', and to the
\* second segment otherwise, whatever the file and the depth.
C20_NpmName ==
    (pc = "resolved" /\ RowType = "npm" /\ Len(RowParts) >= 3) =>
        packages[1].package_name = NpmName(RowParts)

\* C21: the i-th row of the output file belongs to the i-th accepted row of the input
\* file (its path, its ecosystem), in whatever order the calls finish.
C21_OutputFollowsInput ==
    output # None =>
        /\ Len(output[1]) = Len(packages)
        /\ \A i \in 1..Len(packages) :
              /\ output[1][i][1] = packages[i].path
              /\ output[1][i][3] = packages[i].package_type

\* the filename of the npm identity pkg is a tarball <name>-<version>.tgz of its own name
IsMatchingTarball(pkg) ==
    LET names == IF Truthy(pkg.package_name) THEN Split(pkg.package_name[1], "/") ELSE <<"">>
        short == names[Len(names)]
    IN /\ EndsWith(pkg.filename, ".tgz")
       /\ short # ""
       /\ NameDashSearch(short, ".tgz", pkg.filename) # None

\* what C22 says of the version resolved from an npm path with the segments parts
NpmPathVersion(parts) ==
    LET k == IF StartsWith(parts[2], "@") THEN 4 ELSE 3
    IN IF Len(parts) >= k THEN Some(parts[k]) ELSE None

\* C22: an npm path of two or more segments that is neither a tarball of its own name nor
\* a package.json manifest resolves to the version given by the segment right after the
\* name segments (the fourth for a scoped name, the third otherwise), and to None when
\* there is no such segment.
C22_NpmVersionFromPath ==
    (/\ pc = "resolved"
     /\ RowType = "npm"
     /\ Len(RowParts) >= 2
     /\ packages[1].filename # "package.json"
     /\ ~IsMatchingTarball(packages[1])) =>
        (packages[1].exc = None /\ packages[1].version = NpmPathVersion(RowParts))

\* the URL the specification synthesizes for the identity pkg in the repository repo:
\* the coordinates of a maven name as nested directories, the name and the version as
\* segments for the others
SynthesizedUrl(pkg, repo) ==
    LET name == Fmt(pkg.package_name)
        version == Fmt(pkg.version)
        colon == IndexOf(":", [i \in 1..Len(name) |-> Char(name, i)])
        group == SubSeq(name, 1, colon)
        artifact == SubSeq(name, colon + 2, Len(name))
        root == base_url \o "/" \o repo \o "/"
    IN CASE pkg.package_type = "maven" ->
              root \o Replace(group, ".", "/") \o "/" \o artifact \o "/" \o version \o "/"
                   \o artifact \o "-" \o version \o ".jar"
         [] pkg.package_type = "npm" ->
              root \o (IF Contains(name, "/") THEN Quote(name) ELSE name) \o "/" \o version
         [] pkg.package_type = "python" -> root \o "simple/" \o name
         [] pkg.package_type = "nuget" -> root \o name \o "/" \o version
         [] pkg.package_type = "terraform" -> root \o "modules/" \o name \o "/" \o version
         [] pkg.package_type = "docker" -> root \o name \o "/manifests/" \o version

\* what C23 says of the HEAD requests probes of a call for the identity pkg
UrlChoice(pkg, probes) ==
    /\ \A i \in 1..Len(probes) :
          probes[i].url
             = Some(IF StartsWith(pkg.path, probes[i].repo \o "/")
                    THEN base_url \o "/" \o pkg.path
                    ELSE SynthesizedUrl(pkg, probes[i].repo))
    /\ \A i, j \in 1..Len(probes) :
          probes[i].repo # probes[j].repo => probes[i].url # probes[j].url

\* C23: for an identity that is not a maven metadata descriptor, a HEAD request for the
\* candidate R goes to base_url/<raw path> exactly when the raw path starts with R/, and
\* to the URL synthesized from R, the name and the version otherwise; requests for
\* different candidates never share a URL.
C23_UrlChoice ==
    \A t \in 1..Len(tasks) :
        ~(is_metadata_file(packages[t]) /\ packages[t].package_type = "maven") =>
            UrlChoice(packages[t], tasks[t].probes)

\* C23 witness: the hint of a scoped npm row was probed with the raw path and the
\* catalog candidate after it with the synthesized URL of the quoted name
C23_Witness ==
    \E t \in 1..Len(tasks) :
        /\ packages[t].path = "r/@s/a/1.0/x"
        /\ Len(tasks[t].probes) >= 2
        /\ tasks[t].probes[1] = [repo |-> "r", url |-> Some(base_url \o "/r/@s/a/1.0/x"), ok |-> FALSE]
        /\ tasks[t].probes[Len(tasks[t].probes)]
              = [repo |-> "npm-local", url |-> Some(base_url \o "/npm-local/%40s/a/1.0"), ok |-> TRUE]

\* every submitted call has returned or raised
BatchFinished == \A t \in 1..Len(tasks) : tasks[t].state \in {"returned", "raised"}

\* C24: the output is written only after every submitted call has finished, by
\* returning or by raising: when the writing starts, and whenever an output exists, no
\* call is queued or running and every package has its result; the output, once
\* written, has a row for every package.
C24_OutputAfterBatch ==
    /\ (pc = "write" \/ output # None) =>
          (BatchFinished /\ submitted = Len(packages) /\ Len(results) = Len(packages))
    /\ output # None => Len(output[1]) = Len(packages)
    /\ (\E t \in 1..Len(tasks) : tasks[t].state \in {"queued", "running"}) => output = None

\* C24 witness: the output of a full batch is written, one call having finished before
\* the other was collected and one of them by raising
C24_Witness ==
    /\ output # None
    /\ Len(packages) = MaxRows
    /\ Len(output[1]) = MaxRows
    /\ \E t \in 1..Len(tasks) : tasks[t].state = "raised"
    /\ \E t \in 1..Len(tasks) : tasks[t].state = "returned" /\ Len(tasks[t].probes) >= 2

\* C25: within one call of check_package_exists no repository receives two HEAD
\* requests, whatever the requests answer.
C25_OneProbePerCandidate ==
    \A t \in 1..Len(tasks) :
        \A i, j \in 1..Len(tasks[t].probes) :
            i # j => tasks[t].probes[i].repo # tasks[t].probes[j].repo

\* what C26 says of the result r of the call task
WellFormed(r, task) ==
    /\ r.found \in BOOLEAN
    /\ r.found <=> r.repository # None
    /\ r.found =>
          /\ r.error = None
          /\ InList(r.repository[1], task.repos)
          /\ \E i \in 1..Len(task.probes) :
                task.probes[i].repo = r.repository[1] /\ task.probes[i].ok
    /\ ~r.found => (r.error # None /\ r.error[1] # "")

\* C26: every result a call of check_package_exists returned, and every result the
\* orchestrator appended (that of a call, or the one its except built for a call that
\* raised), has found true exactly when repository is not None; a found result has error
\* None and names a candidate of the call that answered 200 to one of its HEAD requests;
\* a result with found false has a non-empty error.
C26_ResultWellFormed ==
    /\ \A t \in 1..Len(tasks) :
          tasks[t].result # None => WellFormed(tasks[t].result[1], tasks[t])
    /\ \A k \in 1..Len(results) : WellFormed(results[k], tasks[collected[k]])

\* C26 witness: the results hold one built for a call that raised and a found one
C26_Witness ==
    /\ \E k \in 1..Len(results) :
          tasks[collected[k]].state = "raised" /\ results[k].error = Some(TypeError)
    /\ \E k \in 1..Len(results) :
          results[k].found /\ results[k].repository = Some("maven-local")

\* C27: the refresh of a checker leaves the module-level DEFAULT_REPO_MAPPINGS as it was
\* written, and a checker built afterwards without a repo_mappings override starts from
\* those static defaults.
C27_SeedsIsolated ==
    /\ module_mappings = DEFAULT_REPO_MAPPINGS
    /\ (pc = "constructed" /\ ~own_mappings) => repo_mappings = DEFAULT_REPO_MAPPINGS

\* what C28 says of the name and the version resolved from a maven path with the segments
\* parts: the name is a non-empty group, a colon and a non-empty artifact segment, and the
\* version is not that artifact segment
MavenNameWellFormed(parts, name, version) ==
    \E i \in 1..Len(parts) :
        /\ parts[i] # ""
        /\ Len(name) > Len(parts[i]) + 1
        /\ EndsWith(name, ":" \o parts[i])
        /\ \/ version = None
           \/ \E j \in (1..Len(parts)) \ {i} : version = Some(parts[j])
           \/ \A j \in 1..Len(parts) : version # Some(parts[j])

\* C28: a maven path of non-empty segments that resolves to a name resolves to
\* <group>:<artifactId> with a non-empty group and a non-empty artifactId, the artifactId
\* not being the segment returned as the version.
C28_MavenNameWellFormed ==
    (pc = "resolved" /\ RowType = "maven" /\ packages[1].exc = None
        /\ packages[1].package_name # None) =>
        MavenNameWellFormed(RowParts, packages[1].package_name[1], packages[1].version)

====
